---------------------------- MODULE Spec2Model ----------------------------
(***************************************************************************)
(* Model of BasiliskII/src/Windows/main_windows.cpp: startup (run),        *)
(* teardown (QuitEmulator), the SIGSEGV handler, the interrupt flags and   *)
(* the two worker threads (tick_func, xpram_func).                         *)
(*                                                                         *)
(* Build configuration modelled: ENABLE_VOSF, HAVE_SIGSEGV_SKIP_INSTRUCTION*)
(* and USE_SCRATCHMEM_SUBTERFUGE defined, ENABLE_MON not defined.          *)
(*                                                                         *)
(* uint32 / uintptr values do not fit the model checker's integers, so a   *)
(* 32-bit value x is the record [hi |-> x \div 2^20, lo |-> x % 2^20]:     *)
(* hi is the 12-bit count of MiB, lo the 20-bit byte remainder.  The       *)
(* arithmetic below is arithmetic modulo 2^32 on that representation.      *)
(***************************************************************************)
EXTENDS Integers, Sequences, FiniteSets, TLC

MiB == 1024 * 1024          \* 2^20, the unit of the hi field
HiMod == 2 ^ 12             \* hi wraps here, i.e. the value wraps at 2^32

U32(hi, lo) == [hi |-> hi, lo |-> lo]
U32FromInt(n) == U32((n \div MiB) % HiMod, n % MiB)
U32Add(a, b) ==
    LET s == a.lo + b.lo
    IN  U32((a.hi + b.hi + (s \div MiB)) % HiMod, s % MiB)
U32Sub(a, b) ==
    LET d == a.lo - b.lo
        borrow == IF d < 0 THEN 1 ELSE 0
    IN  U32((a.hi - b.hi - borrow + HiMod) % HiMod, (d + MiB) % MiB)
U32Lt(a, b) == a.hi < b.hi \/ (a.hi = b.hi /\ a.lo < b.lo)
U32Le(a, b) == a = b \/ U32Lt(a, b)

NULL == U32(0, 0)
VM_MAP_FAILED == U32(HiMod - 1, MiB - 1)        \* (void *)-1
SCRATCH_MEM_SIZE == 65536
ROM_AREA_SIZE == U32(1, 0)                      \* the literal 0x100000

(***************************************************************************)
(* Inputs.                                                                 *)
(***************************************************************************)
\* values of the "ramsize" preference, as the uint32 RAMSize receives them
RamSizePrefs ==
    { U32(0, 0), U32(0, 1), U32(0, 8), U32(0, 1000), U32(0, 1001),
      U32(0, 524288), U32(0, MiB - 1), U32(1, 0), U32(1, 1), U32(1, MiB - 1),
      U32(4, 0), U32(4, 4660), U32(2047, 74565), U32(HiMod - 1, 0),
      U32(HiMod - 1, MiB - 1) }
\* the preference values the lifecycle specification runs with
RunRamSizePrefs == { U32(0, 8), U32(HiMod - 1, 0) }
\* lengths GetFileSize can report for the ROM file
RomFileLengths ==
    { 0, 65535, 65536, 102400, 131072, 262144, 524288, 1048576, 1048577,
      2097152 }
RunRomFileLengths == { 65536, 102400 }
\* addresses the host can hand out for a mapping
HostBases == { U32(16, 0), U32(2048, 0) }
RunHostBases == { U32(16, 0) }
ScratchBases == { U32(8, 0) }

(***************************************************************************)
(* State.                                                                  *)
(***************************************************************************)
VARIABLES
    prefs,                  \* preference items read by this file
    pc,                     \* position of the main (emulation) thread
    RAMBaseHost, ROMBaseHost, RAMSize, ROMSize, ScratchMem,
    rom_bytes,              \* bytes of the ROM file stored at ROMBaseHost
    handler_installed,      \* sigsegv_install_handler succeeded
    acquired,               \* log of vm_acquire calls: [size, addr]
    released,               \* log of vm_release calls: [addr, size]
    alerts,                 \* log of ErrorAlert / WarningAlert calls
    started680x0,           \* Start680x0 has been called
    ROMVersion, mac_started,
    subsys,                 \* InitAll/ExitAll: "uninit", "init", "failed", "exit"
    last_fault,             \* last fault seen by sigsegv_handler, its result
    tick_thread_active, tick_thread_cancel, tpc,
    xpram_thread_active, xpram_thread_cancel, xpc, xi,
    XPRAM, last_xpram, saved_xpram,
    xpram_writes,           \* times the guest has changed XPRAM
    xpram_saves,            \* times xpram_watchdog has called SaveXPRAM
    InterruptFlags, intflag_owner, treg, tflag, ereg, eflag, raised, triggers,
    tick_counter, ticks, next, delay, usec, now, mac_time,
    iter_begin,             \* clock when the current tick_func iteration began
    burst,                  \* one_tick calls since the clock last advanced
    late_worker_action      \* a worker callback ran after a vm_release

mainVars == <<prefs, pc, RAMBaseHost, ROMBaseHost, RAMSize, ROMSize, ScratchMem,
              rom_bytes, handler_installed, acquired, released, alerts,
              started680x0, ROMVersion, mac_started, subsys, last_fault>>
threadVars == <<tick_thread_active, tick_thread_cancel, tpc,
                xpram_thread_active, xpram_thread_cancel, xpc, xi>>
xpramVars == <<XPRAM, last_xpram, saved_xpram, xpram_writes, xpram_saves>>
flagVars == <<InterruptFlags, intflag_owner, treg, tflag, ereg, eflag, raised,
              triggers>>
tickVars == <<tick_counter, ticks, next, delay, usec, now, mac_time, iter_begin,
             burst>>
vars == <<mainVars, threadVars, xpramVars, flagVars, tickVars,
          late_worker_action>>

NoFault == [addr |-> NULL, video |-> FALSE, result |-> "no_fault"]

\* The globals as the loader initialises them, before run() is entered.
InitWith(ramPrefs, ignores) ==
    /\ prefs \in [ramsize : ramPrefs, ignoresegv : ignores]
    /\ pc = "run"
    /\ RAMBaseHost = NULL /\ ROMBaseHost = NULL
    /\ RAMSize = U32(0, 0) /\ ROMSize = U32(0, 0)
    /\ ScratchMem = NULL
    /\ rom_bytes = 0
    /\ handler_installed = FALSE
    /\ acquired = <<>> /\ released = <<>> /\ alerts = <<>>
    /\ started680x0 = FALSE
    /\ ROMVersion = "none" /\ mac_started = FALSE /\ subsys = "uninit"
    /\ last_fault = NoFault
    /\ tick_thread_active = FALSE /\ tick_thread_cancel = FALSE /\ tpc = "none"
    /\ xpram_thread_active = FALSE /\ xpram_thread_cancel = FALSE
    /\ xpc = "none" /\ xi = 0
    /\ XPRAM = 0 /\ last_xpram = 0 /\ saved_xpram = 0
    /\ xpram_writes = 0 /\ xpram_saves = 0
    /\ InterruptFlags = {} /\ intflag_owner = "none"
    /\ treg = {} /\ tflag = "none" /\ ereg = {} /\ eflag = "none"
    /\ raised = {} /\ triggers = 0
    /\ tick_counter = 0 /\ ticks = 0 /\ next = 0 /\ delay = 0 /\ usec = 0
    /\ now = 0 /\ mac_time = 0 /\ iter_begin = 0 /\ burst = 0
    /\ late_worker_action = FALSE

Init == InitWith(RunRamSizePrefs, { FALSE })
InitMem == InitWith(RamSizePrefs, BOOLEAN)

(***************************************************************************)
(* run(): startup.                                                         *)
(***************************************************************************)
\* ErrorAlert(id) followed by QuitEmulator(), which never returns
AlertAndQuit(id) ==
    /\ alerts' = Append(alerts, id)
    /\ pc' = "quit"

RunStart ==
    /\ pc = "run"
    /\ RAMBaseHost' = NULL
    /\ ROMBaseHost' = NULL
    /\ pc' = "sdl_init"
    /\ UNCHANGED <<prefs, RAMSize, ROMSize, ScratchMem, rom_bytes,
                   handler_installed, acquired, released, alerts, started680x0,
                   ROMVersion, mac_started, last_fault, subsys>>
    /\ UNCHANGED <<threadVars, xpramVars, flagVars, tickVars, late_worker_action>>

SDLInit ==
    /\ pc = "sdl_init"
    /\ \E ok \in BOOLEAN :
          IF ok THEN pc' = "prefs_editor" /\ UNCHANGED alerts
                ELSE AlertAndQuit("SDL_INIT_ERR")
    /\ UNCHANGED <<prefs, RAMBaseHost, ROMBaseHost, RAMSize, ROMSize, ScratchMem,
                   rom_bytes, handler_installed, acquired, released,
                   started680x0, ROMVersion, mac_started, last_fault, subsys>>
    /\ UNCHANGED <<threadVars, xpramVars, flagVars, tickVars, late_worker_action>>

\* if (!PrefsFindBool("nogui")) if (!PrefsEditor()) QuitEmulator();
ShowPrefsEditor ==
    /\ pc = "prefs_editor"
    /\ \E proceed \in BOOLEAN :
          pc' = IF proceed THEN "install_handler" ELSE "quit"
    /\ UNCHANGED <<prefs, RAMBaseHost, ROMBaseHost, RAMSize, ROMSize, ScratchMem,
                   rom_bytes, handler_installed, acquired, released, alerts,
                   started680x0, ROMVersion, mac_started, last_fault, subsys>>
    /\ UNCHANGED <<threadVars, xpramVars, flagVars, tickVars, late_worker_action>>

InstallHandler ==
    /\ pc = "install_handler"
    /\ \E ok \in BOOLEAN :
          /\ handler_installed' = ok
          /\ IF ok THEN pc' = "ram_size" /\ UNCHANGED alerts
                   ELSE AlertAndQuit("STR_SIG_INSTALL_ERR")
    /\ UNCHANGED <<prefs, RAMBaseHost, ROMBaseHost, RAMSize, ROMSize, ScratchMem,
                   rom_bytes, acquired, released, started680x0, ROMVersion, mac_started,
                   last_fault, subsys>>
    /\ UNCHANGED <<threadVars, xpramVars, flagVars, tickVars, late_worker_action>>

\* RamSizePolicy without the scaling of small values to megabytes
RamSizePolicy_NoScale(s) ==
    LET rounded == U32(s.hi, 0)
    IN  IF U32Lt(rounded, U32(1, 0)) THEN U32(1, 0) ELSE rounded

\* RAMSize after lines 476-484, for the preference value s
RamSizePolicy(s) ==
    LET scaled == IF U32Le(s, U32(0, 1000)) THEN U32(s.lo % HiMod, 0) ELSE s
        rounded == U32(scaled.hi, 0)                  \* &= 0xfff00000
    IN  IF U32Lt(rounded, U32(1, 0)) THEN U32(1, 0) ELSE rounded

ReadRAMSize ==
    /\ pc = "ram_size"
    /\ RAMSize' = RamSizePolicy(prefs.ramsize)
    /\ LET scaled == IF U32Le(prefs.ramsize, U32(0, 1000))
                     THEN U32(prefs.ramsize.lo % HiMod, 0) ELSE prefs.ramsize
       IN  alerts' = IF scaled.hi = 0
                     THEN Append(alerts, "STR_SMALL_RAM_WARN") ELSE alerts
    /\ pc' = "acquire_ram_rom"
    /\ UNCHANGED <<prefs, RAMBaseHost, ROMBaseHost, ROMSize, ScratchMem,
                   rom_bytes, handler_installed, acquired, released,
                   started680x0, ROMVersion, mac_started, last_fault, subsys>>
    /\ UNCHANGED <<threadVars, xpramVars, flagVars, tickVars, late_worker_action>>

\* vm_acquire(size): the addresses it can return.  A mapping the host grants
\* lies inside the 32-bit address space; the host may refuse any request.
VmAcquire(size, bases) ==
    { b \in bases : U32Add(b, size).hi >= b.hi } \cup { VM_MAP_FAILED }

\* the size expression RAMSize + 0x100000 of line 490, in uint32 arithmetic
RamRomAreaSize == U32Add(RAMSize, ROM_AREA_SIZE)

AcquireRamRom(bases) ==
    /\ pc = "acquire_ram_rom"
    /\ \E ram_rom_area \in VmAcquire(RamRomAreaSize, bases) :
          /\ acquired' = Append(acquired, [size |-> RamRomAreaSize,
                                           addr |-> ram_rom_area])
          /\ IF ram_rom_area = VM_MAP_FAILED
             THEN /\ AlertAndQuit("STR_NO_MEM_ERR")
                  /\ UNCHANGED <<RAMBaseHost, ROMBaseHost>>
             ELSE /\ RAMBaseHost' = ram_rom_area
                  /\ ROMBaseHost' = U32Add(ram_rom_area, RAMSize)
                  /\ pc' = "acquire_scratch"
                  /\ UNCHANGED alerts
    /\ UNCHANGED <<prefs, RAMSize, ROMSize, ScratchMem, rom_bytes,
                   handler_installed, released, started680x0, ROMVersion, mac_started,
                   last_fault, subsys>>
    /\ UNCHANGED <<threadVars, xpramVars, flagVars, tickVars, late_worker_action>>

AcquireScratch ==
    /\ pc = "acquire_scratch"
    /\ \E mem \in VmAcquire(U32FromInt(SCRATCH_MEM_SIZE), ScratchBases) :
          /\ acquired' = Append(acquired, [size |-> U32FromInt(SCRATCH_MEM_SIZE),
                                           addr |-> mem])
          /\ IF mem = VM_MAP_FAILED
             THEN /\ ScratchMem' = mem
                  /\ AlertAndQuit("STR_NO_MEM_ERR")
             ELSE /\ ScratchMem' = U32Add(mem, U32FromInt(SCRATCH_MEM_SIZE \div 2))
                  /\ pc' = "open_rom"
                  /\ UNCHANGED alerts
    /\ UNCHANGED <<prefs, RAMBaseHost, ROMBaseHost, RAMSize, ROMSize, rom_bytes,
                   handler_installed, released, started680x0, ROMVersion, mac_started,
                   last_fault, subsys>>
    /\ UNCHANGED <<threadVars, xpramVars, flagVars, tickVars, late_worker_action>>

U32ToInt(x) == x.hi * MiB + x.lo     \* for values below 2^31

OpenRom ==
    /\ pc = "open_rom"
    /\ \E found \in BOOLEAN :
          IF found THEN pc' = "rom_size" /\ UNCHANGED alerts
                   ELSE AlertAndQuit("STR_NO_ROM_FILE_ERR")
    /\ UNCHANGED <<prefs, RAMBaseHost, ROMBaseHost, RAMSize, ROMSize, ScratchMem,
                   rom_bytes, handler_installed, acquired, released,
                   started680x0, ROMVersion, mac_started, last_fault, subsys>>
    /\ UNCHANGED <<threadVars, xpramVars, flagVars, tickVars, late_worker_action>>

\* the length test of line 534
ValidRomSize(size) ==
    size \in { U32FromInt(64 * 1024), U32FromInt(128 * 1024),
               U32FromInt(256 * 1024), U32FromInt(512 * 1024),
               U32FromInt(1024 * 1024) }

GetRomSize(lengths) ==
    /\ pc = "rom_size"
    /\ \E len \in lengths :
          /\ ROMSize' = U32FromInt(len)
          /\ IF ValidRomSize(U32FromInt(len))
             THEN pc' = "read_rom" /\ UNCHANGED alerts
             ELSE AlertAndQuit("STR_ROM_SIZE_ERR")
    /\ UNCHANGED <<prefs, RAMBaseHost, ROMBaseHost, RAMSize, ScratchMem,
                   rom_bytes, handler_installed, acquired, released,
                   started680x0, ROMVersion, mac_started, last_fault, subsys>>
    /\ UNCHANGED <<threadVars, xpramVars, flagVars, tickVars, late_worker_action>>

\* ReadRom reporting a failed or short read with the message of the size test
ReadRom_SizeAlert ==
    /\ pc = "read_rom"
    /\ \E ok \in BOOLEAN, bytes_read \in { 0, U32ToInt(ROMSize) \div 2,
                                          U32ToInt(ROMSize) } :
          /\ ok \/ bytes_read < U32ToInt(ROMSize)
          /\ rom_bytes' = bytes_read
          /\ IF ~ok \/ bytes_read # U32ToInt(ROMSize)
             THEN AlertAndQuit("STR_ROM_SIZE_ERR")
             ELSE pc' = "init_all" /\ UNCHANGED alerts
    /\ UNCHANGED <<prefs, RAMBaseHost, ROMBaseHost, RAMSize, ROMSize, ScratchMem,
                   handler_installed, acquired, released,
                   started680x0, ROMVersion, mac_started, last_fault, subsys>>
    /\ UNCHANGED <<threadVars, xpramVars, flagVars, tickVars, late_worker_action>>

\* ReadFile(rom_fh, ROMBaseHost, ROMSize, &bytes_read, NULL)
ReadRom ==
    /\ pc = "read_rom"
    /\ \E ok \in BOOLEAN, bytes_read \in { 0, U32ToInt(ROMSize) \div 2,
                                          U32ToInt(ROMSize) } :
          /\ ok \/ bytes_read < U32ToInt(ROMSize)
          /\ rom_bytes' = bytes_read
          /\ IF ~ok \/ bytes_read # U32ToInt(ROMSize)
             THEN AlertAndQuit("STR_ROM_FILE_READ_ERR")
             ELSE pc' = "init_all" /\ UNCHANGED alerts
    /\ UNCHANGED <<prefs, RAMBaseHost, ROMBaseHost, RAMSize, ROMSize, ScratchMem,
                   handler_installed, acquired, released,
                   started680x0, ROMVersion, mac_started, last_fault, subsys>>
    /\ UNCHANGED <<threadVars, xpramVars, flagVars, tickVars, late_worker_action>>

\* InitAllStep with the call of QuitEmulator() missing after a failed InitAll
InitAllStep_NoQuit(versions) ==
    /\ pc = "init_all"
    /\ \E ok \in BOOLEAN, version \in versions :
          /\ ROMVersion' = version
          /\ subsys' = IF ok THEN "init" ELSE "failed"
          /\ pc' = "start_tick"
    /\ UNCHANGED <<prefs, RAMBaseHost, ROMBaseHost, RAMSize, ROMSize, ScratchMem,
                   rom_bytes, handler_installed, acquired, released, alerts,
                   started680x0, mac_started, last_fault>>
    /\ UNCHANGED <<threadVars, xpramVars, flagVars, tickVars, late_worker_action>>

\* timer_init(); if (!InitAll(NULL)) QuitEmulator();
\* InitAll identifies the ROM and so fixes ROMVersion.
InitAllStep(versions) ==
    /\ pc = "init_all"
    /\ \E ok \in BOOLEAN, version \in versions :
          /\ ROMVersion' = version
          /\ subsys' = IF ok THEN "init" ELSE "failed"
          /\ pc' = IF ok THEN "start_tick" ELSE "quit"
    /\ UNCHANGED <<prefs, RAMBaseHost, ROMBaseHost, RAMSize, ROMSize, ScratchMem,
                   rom_bytes, handler_installed, acquired, released, alerts,
                   started680x0, mac_started, last_fault>>
    /\ UNCHANGED <<threadVars, xpramVars, flagVars, tickVars, late_worker_action>>

StartTickThread ==
    /\ pc = "start_tick"
    /\ \E created \in BOOLEAN :
          /\ tick_thread_active' = created
          /\ IF created
             THEN tpc' = "t_start" /\ pc' = "start_xpram" /\ UNCHANGED alerts
             ELSE UNCHANGED tpc /\ AlertAndQuit("STR_TICK_THREAD_ERR")
    /\ UNCHANGED <<prefs, RAMBaseHost, ROMBaseHost, RAMSize, ROMSize, ScratchMem,
                   rom_bytes, handler_installed, acquired, released,
                   started680x0, ROMVersion, mac_started, last_fault, subsys>>
    /\ UNCHANGED <<tick_thread_cancel, xpram_thread_active, xpram_thread_cancel,
                   xpc, xi>>
    /\ UNCHANGED <<xpramVars, flagVars, tickVars, late_worker_action>>

\* StartXpramThread treating a failed creation like that of the tick thread
StartXpramThread_Fatal ==
    /\ pc = "start_xpram"
    /\ last_xpram' = XPRAM
    /\ \E created \in BOOLEAN :
          /\ xpram_thread_active' = created
          /\ IF created
             THEN xpc' = "x_loop" /\ pc' = "start680x0" /\ UNCHANGED alerts
             ELSE UNCHANGED xpc /\ AlertAndQuit("STR_TICK_THREAD_ERR")
    /\ UNCHANGED <<prefs, RAMBaseHost, ROMBaseHost, RAMSize, ROMSize, ScratchMem,
                   rom_bytes, handler_installed, acquired, released,
                   started680x0, ROMVersion, mac_started, last_fault, subsys>>
    /\ UNCHANGED <<tick_thread_active, tick_thread_cancel, tpc,
                   xpram_thread_cancel, xi>>
    /\ UNCHANGED <<XPRAM, saved_xpram, xpram_writes, xpram_saves>>
    /\ UNCHANGED <<flagVars, tickVars, late_worker_action>>

\* memcpy(last_xpram, XPRAM, XPRAM_SIZE); SDL_CreateThread(xpram_func, ...)
StartXpramThread ==
    /\ pc = "start_xpram"
    /\ last_xpram' = XPRAM
    /\ \E created \in BOOLEAN :
          /\ xpram_thread_active' = created
          /\ xpc' = IF created THEN "x_loop" ELSE xpc
    /\ pc' = "start680x0"
    /\ UNCHANGED <<prefs, RAMBaseHost, ROMBaseHost, RAMSize, ROMSize, ScratchMem,
                   rom_bytes, handler_installed, acquired, released, alerts,
                   started680x0, ROMVersion, mac_started, last_fault, subsys>>
    /\ UNCHANGED <<tick_thread_active, tick_thread_cancel, tpc,
                   xpram_thread_cancel, xi>>
    /\ UNCHANGED <<XPRAM, saved_xpram, xpram_writes, xpram_saves>>
    /\ UNCHANGED <<flagVars, tickVars, late_worker_action>>

Start680x0 ==
    /\ pc = "start680x0"
    /\ started680x0' = TRUE
    /\ pc' = "emul"
    /\ UNCHANGED <<prefs, RAMBaseHost, ROMBaseHost, RAMSize, ROMSize, ScratchMem,
                   rom_bytes, handler_installed, acquired, released, alerts,
                   ROMVersion, mac_started, last_fault, subsys>>
    /\ UNCHANGED <<threadVars, xpramVars, flagVars, tickVars, late_worker_action>>

(***************************************************************************)
(* The emulation running on the main thread (inside Start680x0).           *)
(***************************************************************************)
Alive == pc \notin { "exited", "crashed" }

\* the guest writes parameter RAM
EmulWriteXPRAM ==
    /\ pc = "emul"
    /\ XPRAM' = 1 - XPRAM
    /\ xpram_writes' = xpram_writes + 1
    /\ UNCHANGED <<mainVars, threadVars, last_xpram, saved_xpram, xpram_saves,
                   flagVars,
                   tickVars, late_worker_action>>

\* the guest installs its interrupt vectors: HasMacStarted() becomes true
EmulBoot ==
    /\ pc = "emul"
    /\ ~mac_started
    /\ mac_started' = TRUE
    /\ UNCHANGED <<prefs, pc, RAMBaseHost, ROMBaseHost, RAMSize, ROMSize,
                   ScratchMem, rom_bytes, handler_installed, acquired, released,
                   alerts, started680x0, ROMVersion, last_fault, subsys>>
    /\ UNCHANGED <<threadVars, xpramVars, flagVars, tickVars, late_worker_action>>

\* Start680x0() returns; run() goes on to QuitEmulator()
Start680x0Returns ==
    /\ pc = "emul"
    /\ pc' = "quit"
    /\ UNCHANGED <<prefs, RAMBaseHost, ROMBaseHost, RAMSize, ROMSize,
                   ScratchMem, rom_bytes, handler_installed, acquired, released,
                   alerts, started680x0, ROMVersion, mac_started, last_fault, subsys>>
    /\ UNCHANGED <<threadVars, xpramVars, flagVars, tickVars, late_worker_action>>

(***************************************************************************)
(* SIGSEGV handler.                                                        *)
(***************************************************************************)
\* sigsegv_handler testing only the upper end of the ROM image
sigsegv_handler_NoLowerBound(fault_address, screen_fault) ==
    IF screen_fault
    THEN [rule |-> "video", ret |-> "SIGSEGV_RETURN_SUCCESS"]
    ELSE IF U32Lt(fault_address, U32Add(ROMBaseHost, ROMSize))
    THEN [rule |-> "rom", ret |-> "SIGSEGV_RETURN_SKIP_INSTRUCTION"]
    ELSE IF prefs.ignoresegv
    THEN [rule |-> "ignoresegv", ret |-> "SIGSEGV_RETURN_SKIP_INSTRUCTION"]
    ELSE [rule |-> "unrecoverable", ret |-> "SIGSEGV_RETURN_FAILURE"]

\* sigsegv_handler with <= for < in the ROM test
sigsegv_handler_OffByOne(fault_address, screen_fault) ==
    IF screen_fault
    THEN [rule |-> "video", ret |-> "SIGSEGV_RETURN_SUCCESS"]
    ELSE IF U32Le(U32Sub(fault_address, ROMBaseHost), ROMSize)
    THEN [rule |-> "rom", ret |-> "SIGSEGV_RETURN_SKIP_INSTRUCTION"]
    ELSE IF prefs.ignoresegv
    THEN [rule |-> "ignoresegv", ret |-> "SIGSEGV_RETURN_SKIP_INSTRUCTION"]
    ELSE [rule |-> "unrecoverable", ret |-> "SIGSEGV_RETURN_FAILURE"]

\* the branch sigsegv_handler takes and the value it returns, for a fault at
\* fault_address that Screen_fault_handler does (screen_fault) or does not claim
sigsegv_handler(fault_address, screen_fault) ==
    IF screen_fault
    THEN [rule |-> "video", ret |-> "SIGSEGV_RETURN_SUCCESS"]
    ELSE IF U32Lt(U32Sub(fault_address, ROMBaseHost), ROMSize)
    THEN [rule |-> "rom", ret |-> "SIGSEGV_RETURN_SKIP_INSTRUCTION"]
    ELSE IF prefs.ignoresegv
    THEN [rule |-> "ignoresegv", ret |-> "SIGSEGV_RETURN_SKIP_INSTRUCTION"]
    ELSE [rule |-> "unrecoverable", ret |-> "SIGSEGV_RETURN_FAILURE"]

\* fault addresses tried: around both ends of the ROM area and of the image
FaultAddresses ==
    { NULL, U32(0, 4096), VM_MAP_FAILED, RAMBaseHost,
      U32Sub(ROMBaseHost, U32(0, 1)), ROMBaseHost,
      U32Add(ROMBaseHost, U32Sub(ROMSize, U32(0, 1))),
      U32Add(ROMBaseHost, ROMSize),
      U32Add(ROMBaseHost, U32(0, MiB - 1)),
      U32Add(ROMBaseHost, ROM_AREA_SIZE) }
RunFaultAddresses == { U32(0, 4096) }

\* A protected access traps on the main thread.  A fault the handler does not
\* recover goes to sigsegv_dump_state and then to the host's default handling,
\* which ends the process.
Fault(addresses, claimed, where) ==
    /\ handler_installed
    /\ pc \in where
    /\ \E a \in addresses, screen_fault \in claimed :
          LET r == sigsegv_handler(a, screen_fault)
          IN  /\ last_fault' = [addr |-> a, video |-> screen_fault,
                                result |-> r.rule]
              /\ pc' = IF r.ret = "SIGSEGV_RETURN_FAILURE" THEN "crashed" ELSE pc
    /\ UNCHANGED <<prefs, RAMBaseHost, ROMBaseHost, RAMSize, ROMSize,
                   ScratchMem, rom_bytes, handler_installed, acquired, released,
                   alerts, started680x0, ROMVersion, mac_started, subsys>>
    /\ UNCHANGED <<threadVars, xpramVars, flagVars, tickVars, late_worker_action>>

(***************************************************************************)
(* QuitEmulator().                                                         *)
(***************************************************************************)
QuitStep(from, to) ==
    /\ pc = from
    /\ pc' = to
    /\ UNCHANGED <<prefs, RAMSize, ROMSize, rom_bytes, handler_installed,
                   acquired, alerts, started680x0, ROMVersion, mac_started,
                   last_fault>>
    /\ UNCHANGED <<tick_thread_active, tpc, xpram_thread_active, xpc, xi>>
    /\ UNCHANGED <<xpramVars, flagVars, tickVars, late_worker_action>>

QuitExit680x0 ==
    /\ QuitStep("quit", "q_stop_tick")
    /\ UNCHANGED <<RAMBaseHost, ROMBaseHost, ScratchMem, released,
                   tick_thread_cancel, xpram_thread_cancel>>
    /\ UNCHANGED subsys

QuitStopTick ==
    /\ QuitStep("q_stop_tick",
                IF tick_thread_active THEN "q_wait_tick" ELSE "q_stop_xpram")
    /\ tick_thread_cancel' = (tick_thread_active \/ tick_thread_cancel)
    /\ UNCHANGED <<RAMBaseHost, ROMBaseHost, ScratchMem, released,
                   xpram_thread_cancel>>
    /\ UNCHANGED subsys

\* QuitWaitTick going on to the next statement without waiting for tick_func
QuitWaitTick_NoJoin ==
    /\ QuitStep("q_wait_tick", "q_stop_xpram")
    /\ UNCHANGED <<RAMBaseHost, ROMBaseHost, ScratchMem, released,
                   tick_thread_cancel, xpram_thread_cancel>>
    /\ UNCHANGED subsys

\* SDL_WaitThread(tick_thread, NULL) returns once tick_func has returned
QuitWaitTick ==
    /\ tpc = "done"
    /\ QuitStep("q_wait_tick", "q_stop_xpram")
    /\ UNCHANGED <<RAMBaseHost, ROMBaseHost, ScratchMem, released,
                   tick_thread_cancel, xpram_thread_cancel>>
    /\ UNCHANGED subsys

\* QuitStopXpram going on to the wait without setting xpram_thread_cancel
QuitStopXpram_NoCancel ==
    /\ QuitStep("q_stop_xpram",
                IF xpram_thread_active THEN "q_wait_xpram" ELSE "q_exit_all")
    /\ UNCHANGED <<RAMBaseHost, ROMBaseHost, ScratchMem, released,
                   tick_thread_cancel, xpram_thread_cancel>>
    /\ UNCHANGED subsys

\* if (xpram_thread_active) { xpram_thread_cancel = true; ...
QuitStopXpram ==
    /\ QuitStep("q_stop_xpram",
                IF xpram_thread_active THEN "q_wait_xpram" ELSE "q_exit_all")
    /\ xpram_thread_cancel' = (xpram_thread_active \/ xpram_thread_cancel)
    /\ UNCHANGED <<RAMBaseHost, ROMBaseHost, ScratchMem, released,
                   tick_thread_cancel>>
    /\ UNCHANGED subsys

\* QuitWaitXpram going on to ExitAll without waiting for xpram_func
QuitWaitXpram_NoJoin ==
    /\ QuitStep("q_wait_xpram", "q_exit_all")
    /\ UNCHANGED <<RAMBaseHost, ROMBaseHost, ScratchMem, released,
                   tick_thread_cancel, xpram_thread_cancel>>
    /\ UNCHANGED subsys

\* SDL_WaitThread(xpram_thread, NULL) returns once xpram_func has returned
QuitWaitXpram ==
    /\ xpc = "done"
    /\ QuitStep("q_wait_xpram", "q_exit_all")
    /\ UNCHANGED <<RAMBaseHost, ROMBaseHost, ScratchMem, released,
                   tick_thread_cancel, xpram_thread_cancel>>
    /\ UNCHANGED subsys

QuitExitAll ==
    /\ QuitStep("q_exit_all", "q_free_ram")
    /\ subsys' = "exit"
    /\ UNCHANGED <<RAMBaseHost, ROMBaseHost, ScratchMem, released,
                   tick_thread_cancel, xpram_thread_cancel>>

\* if (RAMBaseHost != VM_MAP_FAILED) { vm_release(RAMBaseHost, RAMSize); ... }
QuitFreeRam ==
    /\ QuitStep("q_free_ram", "q_free_rom")
    /\ IF RAMBaseHost # VM_MAP_FAILED
       THEN /\ released' = Append(released, [addr |-> RAMBaseHost,
                                             size |-> RAMSize])
            /\ RAMBaseHost' = NULL
       ELSE UNCHANGED <<released, RAMBaseHost>>
    /\ UNCHANGED <<ROMBaseHost, ScratchMem, tick_thread_cancel,
                   xpram_thread_cancel>>
    /\ UNCHANGED subsys

QuitFreeRom ==
    /\ QuitStep("q_free_rom", "q_free_scratch")
    /\ IF ROMBaseHost # VM_MAP_FAILED
       THEN /\ released' = Append(released, [addr |-> ROMBaseHost,
                                             size |-> ROM_AREA_SIZE])
            /\ ROMBaseHost' = NULL
       ELSE UNCHANGED <<released, ROMBaseHost>>
    /\ UNCHANGED <<RAMBaseHost, ScratchMem, tick_thread_cancel,
                   xpram_thread_cancel>>
    /\ UNCHANGED subsys

QuitFreeScratch ==
    /\ QuitStep("q_free_scratch", "q_exit")
    /\ IF ScratchMem # VM_MAP_FAILED
       THEN /\ released' =
                 Append(released,
                        [addr |-> U32Sub(ScratchMem,
                                         U32FromInt(SCRATCH_MEM_SIZE \div 2)),
                         size |-> U32FromInt(SCRATCH_MEM_SIZE)])
            /\ ScratchMem' = NULL
       ELSE UNCHANGED <<released, ScratchMem>>
    /\ UNCHANGED <<RAMBaseHost, ROMBaseHost, tick_thread_cancel,
                   xpram_thread_cancel>>
    /\ UNCHANGED subsys

\* vm_exit(); SysExit(); PrefsExit(); exit(0);

QuitExit ==
    /\ QuitStep("q_exit", "exited")
    /\ UNCHANGED <<RAMBaseHost, ROMBaseHost, ScratchMem, released,
                   tick_thread_cancel, xpram_thread_cancel>>
    /\ UNCHANGED subsys

(***************************************************************************)
(* Interrupt flags.                                                        *)
(***************************************************************************)

intflag_lock == NULL        \* never assigned anywhere in the file

\* LOCK_INTFLAGS: SDL_LockMutex returns an error at once for a NULL mutex and
\* otherwise blocks until the mutex is free
LockIntflags(self) ==
    IF intflag_lock = NULL
    THEN UNCHANGED intflag_owner
    ELSE intflag_owner = "none" /\ intflag_owner' = self

\* UNLOCK_INTFLAGS
UnlockIntflags(self) ==
    IF intflag_lock = NULL
    THEN UNCHANGED intflag_owner
    ELSE intflag_owner' = "none"

\* SetInterruptFlag(flag) called on the emulation thread (by the device code
\* the CPU core runs), statement by statement
EmulSetLock(flags) ==
    /\ pc = "emul"
    /\ \E flag \in flags : eflag' = flag
    /\ LockIntflags("emul")
    /\ pc' = "e_set_read"
    /\ UNCHANGED <<prefs, RAMBaseHost, ROMBaseHost, RAMSize, ROMSize,
                   ScratchMem, rom_bytes, handler_installed, acquired, released,
                   alerts, started680x0, ROMVersion, mac_started, subsys,
                   last_fault>>
    /\ UNCHANGED <<InterruptFlags, treg, tflag, ereg, raised, triggers>>
    /\ UNCHANGED <<threadVars, xpramVars, tickVars, late_worker_action>>

EmulSetRead ==
    /\ pc = "e_set_read"
    /\ ereg' = InterruptFlags
    /\ pc' = "e_set_write"
    /\ UNCHANGED <<prefs, RAMBaseHost, ROMBaseHost, RAMSize, ROMSize,
                   ScratchMem, rom_bytes, handler_installed, acquired, released,
                   alerts, started680x0, ROMVersion, mac_started, subsys,
                   last_fault>>
    /\ UNCHANGED <<InterruptFlags, intflag_owner, treg, tflag, eflag, raised,
                   triggers>>
    /\ UNCHANGED <<threadVars, xpramVars, tickVars, late_worker_action>>

EmulSetWrite ==
    /\ pc = "e_set_write"
    /\ InterruptFlags' = ereg \cup { eflag }
    /\ raised' = raised \cup { eflag }
    /\ UnlockIntflags("emul")
    /\ pc' = "emul"
    /\ UNCHANGED <<prefs, RAMBaseHost, ROMBaseHost, RAMSize, ROMSize,
                   ScratchMem, rom_bytes, handler_installed, acquired, released,
                   alerts, started680x0, ROMVersion, mac_started, subsys,
                   last_fault>>
    /\ UNCHANGED <<treg, tflag, ereg, eflag, triggers>>
    /\ UNCHANGED <<threadVars, xpramVars, tickVars, late_worker_action>>

\* a worker callback is running: note whether a region was already released
WorkerActs == late_worker_action' = (late_worker_action \/ released # <<>>)

(***************************************************************************)
(* tick_func / one_tick / one_second: the 60Hz thread.                     *)
(***************************************************************************)
Period == 16625
TicksPerSecond == 60

\* uint64 start = GetTicks_usec(); ... uint64 next = GetTicks_usec();
TickStart ==
    /\ Alive /\ tpc = "t_start"
    /\ next' = now
    /\ tpc' = "t_loop"
    /\ UNCHANGED <<mainVars, xpramVars, flagVars, late_worker_action>>
    /\ UNCHANGED <<tick_thread_active, tick_thread_cancel,
                   xpram_thread_active, xpram_thread_cancel, xpc, xi>>
    /\ UNCHANGED <<tick_counter, ticks, delay, usec, now, mac_time, iter_begin, burst>>

\* while (!tick_thread_cancel)
TickLoop ==
    /\ Alive /\ tpc = "t_loop"
    /\ tpc' = IF tick_thread_cancel THEN "done" ELSE "t_one_tick"
    /\ iter_begin' = IF tick_thread_cancel THEN iter_begin ELSE now
    /\ UNCHANGED <<mainVars, xpramVars, flagVars, late_worker_action>>
    /\ UNCHANGED <<tick_counter, ticks, next, delay, usec, now, mac_time, burst>>
    /\ UNCHANGED <<tick_thread_active, tick_thread_cancel,
                   xpram_thread_active, xpram_thread_cancel, xpc, xi>>

\* one_tick() up to its first SetInterruptFlag: the counter, and in one_second
\* the write of the time to Mac address 0x20c
OneTickCount ==
    /\ Alive /\ tpc = "t_one_tick"
    /\ WorkerActs
    /\ IF tick_counter + 1 > TicksPerSecond
       THEN /\ tick_counter' = 0
            /\ mac_time' = now
            /\ tflag' = "INTFLAG_1HZ"
            /\ tpc' = "t_set_lock"
       ELSE /\ tick_counter' = tick_counter + 1
            /\ tpc' = "t_gate"
            /\ UNCHANGED <<mac_time, tflag>>
    /\ UNCHANGED <<mainVars, xpramVars>>
    /\ UNCHANGED <<InterruptFlags, intflag_owner, treg, ereg, eflag, raised,
                   triggers>>
    /\ UNCHANGED <<tick_thread_active, tick_thread_cancel,
                   xpram_thread_active, xpram_thread_cancel, xpc, xi>>
    /\ burst' = burst + 1
    /\ UNCHANGED <<ticks, next, delay, usec, now, iter_begin>>

\* OneTickGate without the test: the 60Hz interrupt is raised on every tick
OneTickGate_NoTest ==
    /\ Alive /\ tpc = "t_gate"
    /\ WorkerActs
    /\ tflag' = "INTFLAG_60HZ" /\ tpc' = "t_set_lock"
    /\ UNCHANGED <<mainVars, xpramVars, tickVars>>
    /\ UNCHANGED <<InterruptFlags, intflag_owner, treg, ereg, eflag, raised,
                   triggers>>
    /\ UNCHANGED <<tick_thread_active, tick_thread_cancel,
                   xpram_thread_active, xpram_thread_cancel, xpc, xi>>

\* if (ROMVersion != ROM_VERSION_CLASSIC || HasMacStarted())
OneTickGate ==
    /\ Alive /\ tpc = "t_gate"
    /\ WorkerActs
    /\ IF ROMVersion # "ROM_VERSION_CLASSIC" \/ mac_started
       THEN tflag' = "INTFLAG_60HZ" /\ tpc' = "t_set_lock"
       ELSE tflag' = "none" /\ tpc' = "t_advance"
    /\ UNCHANGED <<mainVars, xpramVars, tickVars>>
    /\ UNCHANGED <<InterruptFlags, intflag_owner, treg, ereg, eflag, raised,
                   triggers>>
    /\ UNCHANGED <<tick_thread_active, tick_thread_cancel,
                   xpram_thread_active, xpram_thread_cancel, xpc, xi>>

\* SetInterruptFlag(tflag) on the tick thread, statement by statement
TickSetLock ==
    /\ Alive /\ tpc = "t_set_lock"
    /\ WorkerActs
    /\ LockIntflags("tick")
    /\ tpc' = "t_set_read"
    /\ UNCHANGED <<mainVars, xpramVars, tickVars>>
    /\ UNCHANGED <<InterruptFlags, treg, tflag, ereg, eflag, raised, triggers>>
    /\ UNCHANGED <<tick_thread_active, tick_thread_cancel,
                   xpram_thread_active, xpram_thread_cancel, xpc, xi>>

\* InterruptFlags |= flag: the load
TickSetRead ==
    /\ Alive /\ tpc = "t_set_read"
    /\ WorkerActs
    /\ treg' = InterruptFlags
    /\ tpc' = "t_set_write"
    /\ UNCHANGED <<mainVars, xpramVars, tickVars>>
    /\ UNCHANGED <<InterruptFlags, intflag_owner, tflag, ereg, eflag, raised,
                   triggers>>
    /\ UNCHANGED <<tick_thread_active, tick_thread_cancel,
                   xpram_thread_active, xpram_thread_cancel, xpc, xi>>

\* InterruptFlags |= flag: the store, then UNLOCK_INTFLAGS
TickSetWrite ==
    /\ Alive /\ tpc = "t_set_write"
    /\ WorkerActs
    /\ InterruptFlags' = treg \cup { tflag }
    /\ raised' = raised \cup { tflag }
    /\ UnlockIntflags("tick")
    /\ tpc' = "t_trigger"
    /\ UNCHANGED <<mainVars, xpramVars, tickVars>>
    /\ UNCHANGED <<treg, tflag, ereg, eflag, triggers>>
    /\ UNCHANGED <<tick_thread_active, tick_thread_cancel,
                   xpram_thread_active, xpram_thread_cancel, xpc, xi>>

\* TriggerInterrupt(); one_second() then returns into one_tick()
TickTrigger ==
    /\ Alive /\ tpc = "t_trigger"
    /\ WorkerActs
    /\ triggers' = triggers + 1
    /\ tpc' = IF tflag = "INTFLAG_1HZ" THEN "t_gate" ELSE "t_advance"
    /\ UNCHANGED <<mainVars, xpramVars, tickVars>>
    /\ UNCHANGED <<InterruptFlags, intflag_owner, treg, tflag, ereg, eflag,
                   raised>>
    /\ UNCHANGED <<tick_thread_active, tick_thread_cancel,
                   xpram_thread_active, xpram_thread_cancel, xpc, xi>>

\* TickAdvance without the resynchronisation branch
TickAdvance_NoResync ==
    /\ Alive /\ tpc = "t_advance"
    /\ next' = next + Period
    /\ usec' = now
    /\ delay' = next + Period - now
    /\ tpc' = IF delay' > 0 THEN "t_sleep" ELSE "t_loop"
    /\ ticks' = IF delay' > 0 THEN ticks ELSE ticks + 1
    /\ UNCHANGED <<mainVars, xpramVars, flagVars, late_worker_action>>
    /\ UNCHANGED <<tick_thread_active, tick_thread_cancel,
                   xpram_thread_active, xpram_thread_cancel, xpc, xi>>
    /\ UNCHANGED <<tick_counter, now, mac_time, iter_begin, burst>>

\* next += 16625; int64 delay = next - GetTicks_usec(); and the choice between
\* sleeping, resynchronising and going straight on
TickAdvance ==
    /\ Alive /\ tpc = "t_advance"
    /\ next' = next + Period
    /\ usec' = now
    /\ delay' = next + Period - now
    /\ IF delay' > 0
       THEN tpc' = "t_sleep" /\ UNCHANGED ticks
       ELSE IF delay' < -Period
       THEN tpc' = "t_resync" /\ UNCHANGED ticks
       ELSE tpc' = "t_loop" /\ ticks' = ticks + 1
    /\ UNCHANGED <<mainVars, xpramVars, flagVars, late_worker_action>>
    /\ UNCHANGED <<tick_thread_active, tick_thread_cancel,
                   xpram_thread_active, xpram_thread_cancel, xpc, xi>>
    /\ UNCHANGED <<tick_counter, now, mac_time, iter_begin, burst>>

\* Delay_usec(uint32(delay)) returns when that much time has passed
TickSleep ==
    /\ Alive /\ tpc = "t_sleep"
    /\ now' = now + delay
    /\ ticks' = ticks + 1
    /\ tpc' = "t_loop"
    /\ UNCHANGED <<mainVars, xpramVars, flagVars, late_worker_action>>
    /\ UNCHANGED <<tick_thread_active, tick_thread_cancel,
                   xpram_thread_active, xpram_thread_cancel, xpc, xi>>
    /\ burst' = 0
    /\ UNCHANGED <<tick_counter, next, delay, usec, mac_time, iter_begin>>

\* TickResync leaving the deadline where it is
TickResync_KeepDeadline ==
    /\ Alive /\ tpc = "t_resync"
    /\ next' = next
    /\ ticks' = ticks + 1
    /\ tpc' = "t_loop"
    /\ UNCHANGED <<mainVars, xpramVars, flagVars, late_worker_action>>
    /\ UNCHANGED <<tick_thread_active, tick_thread_cancel,
                   xpram_thread_active, xpram_thread_cancel, xpc, xi>>
    /\ UNCHANGED <<tick_counter, delay, usec, now, mac_time, iter_begin, burst>>

\* next = GetTicks_usec();
TickResync ==
    /\ Alive /\ tpc = "t_resync"
    /\ next' = now
    /\ ticks' = ticks + 1
    /\ tpc' = "t_loop"
    /\ UNCHANGED <<mainVars, xpramVars, flagVars, late_worker_action>>
    /\ UNCHANGED <<tick_thread_active, tick_thread_cancel,
                   xpram_thread_active, xpram_thread_cancel, xpc, xi>>
    /\ UNCHANGED <<tick_counter, delay, usec, now, mac_time, iter_begin, burst>>

\* time passes while the tick thread is not running (it is preempted, or the
\* process is stopped in a debugger)
Stall(amounts) ==
    /\ Alive /\ tpc \notin { "none", "done" }
    /\ \E d \in amounts : now' = now + d
    /\ UNCHANGED <<mainVars, threadVars, xpramVars, flagVars,
                   late_worker_action>>
    /\ burst' = 0
    /\ UNCHANGED <<tick_counter, ticks, next, delay, usec, mac_time, iter_begin>>

(***************************************************************************)
(* xpram_func / xpram_watchdog: the XPRAM watchdog thread.                 *)
(***************************************************************************)
WatchdogWaits == 60

\* XpramLoop with a loop condition that never looks at xpram_thread_cancel
XpramLoop_IgnoreCancel ==
    /\ Alive /\ xpc = "x_loop"
    /\ xpc' = "x_for" /\ xi' = 0
    /\ UNCHANGED <<mainVars, xpramVars, flagVars, tickVars, late_worker_action>>
    /\ UNCHANGED <<tick_thread_active, tick_thread_cancel, tpc,
                   xpram_thread_active, xpram_thread_cancel>>

\* while (!xpram_thread_cancel) { for (int i=0; ...
XpramLoop ==
    /\ Alive /\ xpc = "x_loop"
    /\ IF xpram_thread_cancel
       THEN xpc' = "done" /\ UNCHANGED xi
       ELSE xpc' = "x_for" /\ xi' = 0
    /\ UNCHANGED <<mainVars, xpramVars, flagVars, tickVars, late_worker_action>>
    /\ UNCHANGED <<tick_thread_active, tick_thread_cancel, tpc,
                   xpram_thread_active, xpram_thread_cancel>>

\* XpramWait leaving the outer loop body when it finds the cancel flag set,
\* without the call of xpram_watchdog() that follows the waits
XpramWait_NoFlush ==
    /\ Alive /\ xpc = "x_for"
    /\ IF xi < WatchdogWaits /\ ~xpram_thread_cancel
       THEN xi' = xi + 1 /\ UNCHANGED xpc
       ELSE /\ xpc' = IF xpram_thread_cancel THEN "x_loop" ELSE "x_watchdog"
            /\ UNCHANGED xi
    /\ UNCHANGED <<mainVars, xpramVars, flagVars, tickVars, late_worker_action>>
    /\ UNCHANGED <<tick_thread_active, tick_thread_cancel, tpc,
                   xpram_thread_active, xpram_thread_cancel>>

\* for (...; i<60 && !xpram_thread_cancel; i++) Delay_usec(999999);
XpramWait ==
    /\ Alive /\ xpc = "x_for"
    /\ IF xi < WatchdogWaits /\ ~xpram_thread_cancel
       THEN xi' = xi + 1 /\ UNCHANGED xpc
       ELSE xpc' = "x_watchdog" /\ UNCHANGED xi
    /\ UNCHANGED <<mainVars, xpramVars, flagVars, tickVars, late_worker_action>>
    /\ UNCHANGED <<tick_thread_active, tick_thread_cancel, tpc,
                   xpram_thread_active, xpram_thread_cancel>>

\* xpram_watchdog without the comparison: it saves on every call
XpramWatchdog_AlwaysSave ==
    /\ Alive /\ xpc = "x_watchdog"
    /\ WorkerActs
    /\ last_xpram' = XPRAM
    /\ saved_xpram' = XPRAM
    /\ xpram_saves' = xpram_saves + 1
    /\ xpc' = "x_loop"
    /\ UNCHANGED <<mainVars, XPRAM, xpram_writes, flagVars, tickVars>>
    /\ UNCHANGED <<tick_thread_active, tick_thread_cancel, tpc,
                   xpram_thread_active, xpram_thread_cancel, xi>>

\* xpram_watchdog()
XpramWatchdog ==
    /\ Alive /\ xpc = "x_watchdog"
    /\ WorkerActs
    /\ IF last_xpram # XPRAM
       THEN /\ last_xpram' = XPRAM
            /\ saved_xpram' = XPRAM
            /\ xpram_saves' = xpram_saves + 1
       ELSE UNCHANGED <<last_xpram, saved_xpram, xpram_saves>>
    /\ xpc' = "x_loop"
    /\ UNCHANGED <<mainVars, XPRAM, xpram_writes, flagVars, tickVars>>
    /\ UNCHANGED <<tick_thread_active, tick_thread_cancel, tpc,
                   xpram_thread_active, xpram_thread_cancel, xi>>

(***************************************************************************)
(* Specifications.                                                         *)
(***************************************************************************)
MaxTicks == 2
MaxClock == 30000
MaxXpramWrites == 1
Stalls == { Period \div 2, Period, 2 * Period + 1 }
RunStalls == { 2 * Period + 1 }

Next ==
    \/ RunStart
    \/ SDLInit
    \/ ShowPrefsEditor
    \/ InstallHandler
    \/ ReadRAMSize
    \/ AcquireRamRom(RunHostBases)
    \/ AcquireScratch
    \/ OpenRom
    \/ GetRomSize(RunRomFileLengths)
    \/ ReadRom
    \/ InitAllStep({ "ROM_VERSION_CLASSIC" })
    \/ StartTickThread
    \/ StartXpramThread
    \/ Start680x0
    \/ (xpram_writes < MaxXpramWrites /\ EmulWriteXPRAM)
    \/ EmulBoot
    \/ Start680x0Returns
    \/ Fault(RunFaultAddresses, { FALSE }, { "init_all", "emul" })
    \/ QuitExit680x0
    \/ QuitStopTick
    \/ QuitWaitTick
    \/ QuitStopXpram
    \/ QuitWaitXpram
    \/ QuitExitAll
    \/ QuitFreeRam
    \/ QuitFreeRom
    \/ QuitFreeScratch
    \/ QuitExit
    \/ TickStart
    \/ (ticks < MaxTicks /\ TickLoop)
    \/ (tick_thread_cancel /\ TickLoop)
    \/ OneTickCount
    \/ OneTickGate
    \/ TickSetLock
    \/ TickSetRead
    \/ TickSetWrite
    \/ TickTrigger
    \/ TickAdvance
    \/ TickSleep
    \/ TickResync
    \/ (now < MaxClock /\ Stall(RunStalls))
    \/ XpramLoop
    \/ XpramWait
    \/ XpramWatchdog

Spec == Init /\ [][Next]_vars

NextMem ==
    \/ RunStart
    \/ SDLInit
    \/ ShowPrefsEditor
    \/ InstallHandler
    \/ ReadRAMSize
    \/ AcquireRamRom(HostBases)
    \/ AcquireScratch
    \/ OpenRom
    \/ GetRomSize(RomFileLengths)
    \/ ReadRom
    \/ Fault(FaultAddresses, BOOLEAN, { "read_rom", "init_all", "quit" })

SpecMem == InitMem /\ [][NextMem]_vars

(***************************************************************************)
(* The running emulator: both workers just created, Start680x0 entered.    *)
(* This is the state run() reaches with ramsize = 8, a ROM file of an      *)
(* allowed length and every startup step succeeding.                       *)
(***************************************************************************)
\* ROM files: the length GetFileSize reports and the version InitAll finds
ClassicRom == [size |-> 64 * 1024, version |-> "ROM_VERSION_CLASSIC"]
RomImages == { ClassicRom, [size |-> 512 * 1024, version |-> "ROM_VERSION_32"] }

RunningWith(roms) ==
    /\ prefs = [ramsize |-> U32(0, 8), ignoresegv |-> FALSE]
    /\ pc = "emul"
    /\ RAMBaseHost = U32(16, 0) /\ ROMBaseHost = U32(24, 0)
    /\ RAMSize = U32(8, 0)
    /\ ScratchMem = U32(8, SCRATCH_MEM_SIZE \div 2)
    /\ \E rom \in roms :
          /\ ROMSize = U32FromInt(rom.size)
          /\ rom_bytes = rom.size
          /\ ROMVersion = rom.version
    /\ handler_installed = TRUE
    /\ acquired = << [size |-> U32(9, 0), addr |-> U32(16, 0)],
                     [size |-> U32FromInt(SCRATCH_MEM_SIZE), addr |-> U32(8, 0)] >>
    /\ released = <<>> /\ alerts = <<>>
    /\ started680x0 = TRUE
    /\ mac_started = FALSE
    /\ subsys = "init"
    /\ last_fault = NoFault
    /\ tick_thread_active = TRUE /\ tick_thread_cancel = FALSE /\ tpc = "t_start"
    /\ xpram_thread_active = TRUE /\ xpram_thread_cancel = FALSE
    /\ xpc = "x_loop" /\ xi = 0
    /\ XPRAM = 0 /\ last_xpram = 0 /\ saved_xpram = 0
    /\ xpram_writes = 0 /\ xpram_saves = 0
    /\ InterruptFlags = {} /\ intflag_owner = "none"
    /\ treg = {} /\ tflag = "none" /\ ereg = {} /\ eflag = "none"
    /\ raised = {} /\ triggers = 0
    /\ tick_counter = 0 /\ ticks = 0 /\ next = 0 /\ delay = 0 /\ usec = 0
    /\ now = 0 /\ mac_time = 0 /\ iter_begin = 0 /\ burst = 0
    /\ late_worker_action = FALSE

InitRunning == RunningWith({ ClassicRom })

\* the tick thread against the clock
TickRunTicks == 4
TickRunClock == 70000

NextTick ==
    \/ EmulBoot
    \/ TickStart
    \/ (ticks < TickRunTicks /\ TickLoop)
    \/ OneTickCount
    \/ OneTickGate
    \/ TickSetLock
    \/ TickSetRead
    \/ TickSetWrite
    \/ TickTrigger
    \/ TickAdvance
    \/ TickSleep
    \/ TickResync
    \/ (now < TickRunClock /\ Stall(Stalls))

SpecTick == InitRunning /\ [][NextTick]_vars

\* the tick thread running undisturbed for a little more than two seconds
CadenceTicks == 125

NextCadence ==
    \/ EmulBoot
    \/ TickStart
    \/ (ticks < CadenceTicks /\ TickLoop)
    \/ OneTickCount
    \/ OneTickGate
    \/ TickSetLock
    \/ TickSetRead
    \/ TickSetWrite
    \/ TickTrigger
    \/ TickAdvance
    \/ TickSleep

SpecCadence == InitRunning /\ [][NextCadence]_vars

\* the tick thread with a classic and with a 32-bit clean ROM, while the guest
\* boots
GateTicks == 4

NextGate ==
    \/ EmulBoot
    \/ TickStart
    \/ (ticks < GateTicks /\ TickLoop)
    \/ OneTickCount
    \/ OneTickGate
    \/ TickSetLock
    \/ TickSetRead
    \/ TickSetWrite
    \/ TickTrigger
    \/ TickAdvance
    \/ TickSleep

SpecGate == RunningWith(RomImages) /\ [][NextGate]_vars

\* the XPRAM watchdog thread while the guest changes XPRAM
WatchdogWrites == 3

NextWatchdog ==
    \/ (xpram_writes < WatchdogWrites /\ EmulWriteXPRAM)
    \/ XpramLoop
    \/ XpramWait
    \/ XpramWatchdog

SpecWatchdog == InitRunning /\ [][NextWatchdog]_vars

\* the running emulator and its shutdown, with the threads scheduled fairly:
\* the host runs every thread that can run, Delay_usec returns, and
\* QuitEmulator goes from statement to statement; Start680x0 need not return
LiveTicks == 1

TickThread ==
    \/ TickStart
    \/ (ticks < LiveTicks /\ TickLoop)
    \/ (tick_thread_cancel /\ TickLoop)
    \/ OneTickCount
    \/ OneTickGate
    \/ TickSetLock
    \/ TickSetRead
    \/ TickSetWrite
    \/ TickTrigger
    \/ TickAdvance
    \/ TickSleep

XpramThread ==
    \/ XpramLoop
    \/ XpramWait
    \/ XpramWatchdog

QuitEmulator ==
    \/ QuitExit680x0
    \/ QuitStopTick
    \/ QuitWaitTick
    \/ QuitStopXpram
    \/ QuitWaitXpram
    \/ QuitExitAll
    \/ QuitFreeRam
    \/ QuitFreeRom
    \/ QuitFreeScratch
    \/ QuitExit

NextLive ==
    \/ EmulBoot
    \/ Start680x0Returns
    \/ QuitEmulator
    \/ TickThread
    \/ XpramThread

SpecLive ==
    /\ InitRunning
    /\ [][NextLive]_vars
    /\ WF_vars(TickThread)
    /\ WF_vars(XpramThread)
    /\ WF_vars(QuitEmulator)

\* the tick thread and the emulation thread both raising interrupt flags
FlagRunTicks == 2
EmulFlags == { "INTFLAG_ADB", "INTFLAG_60HZ" }

NextFlags ==
    \/ EmulBoot
    \/ EmulSetLock(EmulFlags)
    \/ EmulSetRead
    \/ EmulSetWrite
    \/ TickStart
    \/ (ticks < FlagRunTicks /\ TickLoop)
    \/ OneTickCount
    \/ OneTickGate
    \/ TickSetLock
    \/ TickSetRead
    \/ TickSetWrite
    \/ TickTrigger
    \/ TickAdvance
    \/ TickSleep

SpecFlags == InitRunning /\ [][NextFlags]_vars

(***************************************************************************)
(* Claims about startup and teardown, checked under Spec.                  *)
(***************************************************************************)
TickStarted == tpc # "none"
XpramStarted == xpc # "none"
ErrorAlerted(id) == \E i \in 1..Len(alerts) : alerts[i] = id

\* the regions of the vm_acquire calls that succeeded: RAM and ROM out of the
\* first mapping, the scratch block out of the second
ReservedRegions ==
    (IF Len(acquired) >= 1 /\ acquired[1].addr # VM_MAP_FAILED
     THEN { [addr |-> acquired[1].addr, size |-> RAMSize],
            [addr |-> U32Add(acquired[1].addr, RAMSize), size |-> ROM_AREA_SIZE] }
     ELSE {})
    \cup
    (IF Len(acquired) >= 2 /\ acquired[2].addr # VM_MAP_FAILED
     THEN { [addr |-> acquired[2].addr, size |-> acquired[2].size] }
     ELSE {})
TimesReleased(r) == Cardinality({ i \in 1..Len(released) : released[i] = r })

\* C1: once the first vm_release of QuitEmulator has been issued, every worker
\* that was started has its cancel flag set and has returned, and no worker
\* callback (one_tick, one_second, xpram_watchdog) has run after a release.
C1_ShutdownOrdering ==
    released # <<>> =>
        /\ TickStarted => tick_thread_cancel /\ tpc = "done"
        /\ XpramStarted => xpram_thread_cancel /\ xpc = "done"
        /\ ~late_worker_action
C1_Witness ==
    /\ released # <<>>
    /\ TickStarted /\ XpramStarted
    /\ ticks > 0 /\ saved_xpram = 1

\* C6: after a ROM file of a length outside the allowed set was rejected, the
\* emulation has not been started, nothing was read into the ROM area and
\* ROMSize does not hold the rejected length (it still has its initial value).
C6_RejectedRomLeavesNoState ==
    ErrorAlerted("STR_ROM_SIZE_ERR") =>
        /\ ~started680x0
        /\ rom_bytes = 0
        /\ ROMSize = U32(0, 0)

\* C8: every vm_release QuitEmulator issues is for a region that a successful
\* vm_acquire reserved, and no region is released twice.
C8_ReleaseOnlyReserved ==
    \A i \in 1..Len(released) :
        /\ released[i] \in ReservedRegions
        /\ TimesReleased(released[i]) = 1

\* C9: whenever the process has ended, it ended through QuitEmulator (exit),
\* every region that was reserved has been released exactly once, and every
\* worker that was started has been cancelled and has returned.
C9_ExitOnlyAfterTeardown ==
    pc \in { "exited", "crashed" } =>
        /\ pc = "exited"
        /\ \A r \in ReservedRegions : TimesReleased(r) = 1
        /\ TickStarted => tick_thread_cancel /\ tpc = "done"
        /\ XpramStarted => xpram_thread_cancel /\ xpc = "done"

\* C10: a worker exists only if the RAM/ROM and scratch reservations
\* succeeded, a ROM of an allowed length was read completely and InitAll
\* returned true (it has not yet been undone unless teardown reached ExitAll).
C10_WorkersAfterInit ==
    (TickStarted \/ XpramStarted) =>
        /\ Len(acquired) = 2
        /\ \A i \in 1..2 : acquired[i].addr # VM_MAP_FAILED
        /\ ValidRomSize(ROMSize)
        /\ rom_bytes = U32ToInt(ROMSize)
        /\ subsys \in { "init", "exit" }
        /\ \A i \in 1..Len(alerts) : alerts[i] = "STR_SMALL_RAM_WARN"
C10_Witness == TickStarted /\ XpramStarted /\ ticks > 0

RomLoadError ==
    \/ ErrorAlerted("STR_NO_ROM_FILE_ERR")
    \/ ErrorAlerted("STR_ROM_FILE_READ_ERR")
RomSizeError == ErrorAlerted("STR_ROM_SIZE_ERR")
RomFileMeasured == ROMSize # U32(0, 0)

InTeardown ==
    pc \in { "quit", "q_stop_tick", "q_wait_tick", "q_stop_xpram",
             "q_wait_xpram", "q_exit_all", "q_free_ram", "q_free_rom",
             "q_free_scratch", "q_exit", "exited" }

\* C16: a ROM file that cannot be opened gives STR_NO_ROM_FILE_ERR before its
\* length is looked at; a length outside the allowed set gives
\* STR_ROM_SIZE_ERR, always and with nothing read; a file of an allowed length
\* read short gives STR_ROM_FILE_READ_ERR; no run shows both a load error and
\* the size error; and after any of them the program is in teardown with no
\* worker created and Start680x0 never called.
C16_RomErrorsDistinguished ==
    /\ ~(RomLoadError /\ RomSizeError)
    /\ ErrorAlerted("STR_NO_ROM_FILE_ERR") => ~RomFileMeasured /\ rom_bytes = 0
    /\ RomSizeError => ~ValidRomSize(ROMSize) /\ rom_bytes = 0
    /\ (RomFileMeasured /\ ~ValidRomSize(ROMSize)) => RomSizeError
    /\ ErrorAlerted("STR_ROM_FILE_READ_ERR") =>
          ValidRomSize(ROMSize) /\ rom_bytes < U32ToInt(ROMSize)
    /\ (ValidRomSize(ROMSize) /\ rom_bytes < U32ToInt(ROMSize)
          /\ pc \notin { "read_rom" }) => ErrorAlerted("STR_ROM_FILE_READ_ERR")
    /\ (RomLoadError \/ RomSizeError) =>
          /\ InTeardown
          /\ ~TickStarted /\ ~XpramStarted /\ ~started680x0
C16_Witness ==
    /\ ErrorAlerted("STR_ROM_FILE_READ_ERR")
    /\ rom_bytes > 0
    /\ pc = "exited"

\* C18 as stated: when QuitEmulator, with both workers started, begins its
\* first wait (the join of the tick thread), both cancel flags are set.
C18_BothCancelledBeforeFirstWait ==
    (pc = "q_wait_tick" /\ tick_thread_active /\ xpram_thread_active) =>
        tick_thread_cancel /\ xpram_thread_cancel

\* C18 as amended: QuitEmulator cancels and joins the workers one after the
\* other: while it waits for the tick thread tick_thread_cancel is set and
\* xpram_thread_cancel is not yet; xpram_thread_cancel is set only after the
\* tick thread has returned, and is set while QuitEmulator waits for the
\* XPRAM thread.
C18_CancelThenJoinEachWorker ==
    /\ pc = "q_wait_tick" =>
          tick_thread_active /\ tick_thread_cancel /\ ~xpram_thread_cancel
    /\ pc = "q_wait_xpram" => xpram_thread_active /\ xpram_thread_cancel
    /\ xpram_thread_cancel => (TickStarted => tick_thread_cancel /\ tpc = "done")
C18_Witness ==
    /\ pc = "q_wait_tick"
    /\ tpc \notin { "none", "done" }
    /\ xpc = "x_for"
    /\ ~xpram_thread_cancel

\* QuitEmulator is at its call of ExitAll(), or past it
ExitAllInvoked ==
    pc \in { "q_exit_all", "q_free_ram", "q_free_rom", "q_free_scratch",
             "q_exit", "exited" }
\* QuitEmulator is at its call of Exit680x0()
Exit680x0Invoked == pc = "quit"
\* a started thread's function has returned
WorkersQuiesced ==
    /\ TickStarted => tpc = "done"
    /\ XpramStarted => xpc = "done"

\* C22: from the call of ExitAll() on, every started worker has returned, so
\* that no one_tick() and no xpram_watchdog() runs during or after ExitAll();
\* ExitAll() changes the subsystems only in such a state.  At the call of
\* Exit680x0() no cancel flag has been set yet.
C22_QuiescedBeforeExitAll ==
    /\ ExitAllInvoked => WorkersQuiesced
    /\ subsys = "exit" => ExitAllInvoked /\ WorkersQuiesced
    /\ Exit680x0Invoked => ~tick_thread_cancel /\ ~xpram_thread_cancel
C22_Witness ==
    /\ pc = "q_free_ram" /\ subsys = "exit"
    /\ TickStarted /\ XpramStarted /\ WorkersQuiesced
    /\ ticks > 0 /\ xpram_saves > 0

\* the XPRAM thread has returned
XpramReturned == xpc = "done"
\* its last round of waits was cut short: it found xpram_thread_cancel set
\* in the condition of the inner loop, after at least one wait
CancelledInWaits == xi > 0 /\ xi < WatchdogWaits

\* C20 as stated: an XPRAM thread that has been inside its loop has, when it
\* returns, persisted every change of XPRAM: last_xpram equals XPRAM.
C20_FlushBeforeJoin ==
    (XpramReturned /\ xi > 0) => last_xpram = XPRAM

\* C20 as amended: an XPRAM thread that found its cancel flag set in the
\* condition of the inner loop has called xpram_watchdog() once more before
\* it returns, so that last_xpram and the saved copy equal XPRAM.  (A thread
\* that finds the flag set at the outer loop condition returns at once.)
C20_FlushWhenCancelledInWaits ==
    (XpramReturned /\ CancelledInWaits) =>
        last_xpram = XPRAM /\ saved_xpram = XPRAM
C20_Witness ==
    /\ XpramReturned /\ CancelledInWaits
    /\ xpram_writes = 1 /\ xpram_saves = 1
    /\ saved_xpram = XPRAM
    /\ pc = "exited"

\* C11: after the alert for a failed tick-thread creation the program is in
\* teardown with no worker running and Start680x0 never called; when the tick
\* thread runs and the creation of the XPRAM thread failed, run() goes on to
\* Start680x0 (teardown is reached only after it), no alert is shown, the
\* watchdog never runs, and QuitEmulator neither sets xpram_thread_cancel nor
\* waits for the thread.
C11_WorkerStartErrors ==
    /\ ErrorAlerted("STR_TICK_THREAD_ERR") =>
          /\ InTeardown
          /\ ~tick_thread_active /\ ~TickStarted /\ ~XpramStarted
          /\ ~started680x0
    /\ (TickStarted /\ ~xpram_thread_active /\ pc # "start_xpram") =>
          /\ pc = "start680x0" \/ started680x0
          /\ ~ErrorAlerted("STR_TICK_THREAD_ERR")
          /\ ~XpramStarted /\ xpram_saves = 0
          /\ ~xpram_thread_cancel /\ pc # "q_wait_xpram"
C11_Witness ==
    /\ pc = "exited"
    /\ started680x0
    /\ TickStarted /\ ~xpram_thread_active
    /\ xpram_writes > 0

(***************************************************************************)
(* Claims about the interrupt flags, checked under SpecFlags.              *)
(***************************************************************************)
SettingFlag ==
    \/ tpc \in { "t_set_lock", "t_set_read", "t_set_write" }
    \/ pc \in { "e_set_read", "e_set_write" }

\* C2: when no SetInterruptFlag call is in progress (and nothing has been
\* cleared), InterruptFlags holds every flag that a completed call raised:
\* it equals the union of its initial value (empty) and all flags raised.
C2_NoRaisedFlagLost == ~SettingFlag => InterruptFlags = raised

(***************************************************************************)
(* Claims about the tick thread's timing, checked under SpecTick.          *)
(***************************************************************************)
IterationEnded == tpc = "t_loop" /\ ticks > 0

\* C3 as stated: an iteration that took longer than one period from its
\* begin to its clock reading leaves next resynchronised, i.e. not earlier
\* than that clock reading.
C3_ResyncAfterOnePeriod ==
    (IterationEnded /\ usec - iter_begin > Period) => next >= usec

\* C3 as amended: an iteration that took longer than two periods leaves next
\* resynchronised (delay < -16625, next not earlier than the clock reading);
\* an iteration that ends at most one period behind its advanced deadline
\* (-16625 <= delay <= 0) is not resynchronised: next stays at the old
\* deadline plus one period, in the past, and the next tick fires at once.
C3_ResyncAfterTwoPeriods ==
    IterationEnded =>
        /\ usec - iter_begin > 2 * Period => delay < -Period /\ next >= usec
        /\ delay < -Period => next >= usec
        /\ (delay >= -Period /\ delay <= 0) => next = usec + delay
C3_Witness ==
    /\ IterationEnded
    /\ usec - iter_begin > 2 * Period
    /\ next >= usec

\* at the end of an iteration next is at most one period behind the clock
\* value the iteration read at its delay computation
DeadlineLagBounded == IterationEnded => next >= usec - Period

\* C21 as stated: at the end of every iteration next >= now - 16625 for the
\* clock value now read in that iteration, and at most two calls of
\* one_tick() are made without a sleep in between while the clock stands
\* still.
C21_BacklogAtMostTwo ==
    /\ DeadlineLagBounded
    /\ burst <= 2

\* C21 as amended: at the end of every iteration next >= now - 16625, and at
\* most three calls of one_tick() are made without a sleep in between while
\* the clock stands still; the third is made only when the deadline of the
\* second equals the clock exactly (delay = 0, which does not sleep).
C21_BacklogAtMostThree ==
    /\ DeadlineLagBounded
    /\ burst <= 3
    /\ burst = 3 => next \in { now, now + Period }
C21_Witness ==
    /\ burst = 3
    /\ tpc = "t_sleep" /\ delay = Period
    /\ usec = now

\* one_tick() is running for the (ticks + 1)-th time and is past its counter
InOneTick ==
    tpc \in { "t_gate", "t_set_lock", "t_set_read", "t_set_write", "t_trigger" }
TickNumber == ticks + 1
\* this call of one_tick() has reset its counter and gone into one_second()
\* (a call that does not leaves the counter at 1 or more)
OneSecondCalled == tick_counter = 0

\* C12: a call of one_tick() calls one_second() exactly when it is the 60th,
\* 120th, ... call: the first one_second() is in the 60th tick and 60 ticks
\* separate consecutive ones.  Checked under SpecCadence.
C12_EverySixtiethTick ==
    InOneTick => (OneSecondCalled <=> TickNumber % TicksPerSecond = 0)

\* steps of the tick thread inside a raise
TickStoresFlags == tpc = "t_set_write" /\ tpc' = "t_trigger"
TickNotifies == tpc = "t_trigger" /\ triggers' = triggers + 1
OneSecondBegins == tpc = "t_one_tick" /\ tpc' = "t_set_lock"

\* C14: a raise by the tick thread ORs exactly its bit into InterruptFlags
\* under the lock (every other bit is as it was just before the store), then
\* releases the lock, then calls TriggerInterrupt: the notification comes
\* with the bit already ORed in and the lock not held by the tick thread; and
\* one_second() writes the time to guest memory before it raises the 1Hz
\* flag.  Checked under SpecFlags, where the emulation thread raises flags
\* too.
C14_RaiseProtocol ==
    [][ /\ TickStoresFlags =>
              /\ InterruptFlags' = InterruptFlags \cup { tflag }
              /\ intflag_owner' # "tick"
        /\ TickNotifies =>
              /\ tflag \in raised
              /\ intflag_owner # "tick"
        /\ OneSecondBegins =>
              /\ mac_time' = now
              /\ UNCHANGED <<InterruptFlags, triggers>> ]_vars

\* the step of one_tick() that decides about the 60Hz interrupt
GateStep == tpc = "t_gate" /\ tpc' # "t_gate"
Raises60Hz == tpc = "t_set_lock" /\ tflag = "INTFLAG_60HZ"

\* C13 as stated: a tick raises the 60Hz interrupt if and only if
\* HasMacStarted() is true, whatever the ROM version.  Checked under SpecGate.
C13_GatedByBoot == [][GateStep => (Raises60Hz' <=> mac_started)]_vars

\* C13 as amended: a tick raises the 60Hz interrupt if and only if the ROM is
\* not a classic ROM or HasMacStarted() is true; with a classic ROM and a
\* guest that has not booted INTFLAG_60HZ is never set by a tick.
C13_GatedForClassicRom ==
    [][ /\ GateStep =>
              (Raises60Hz' <=>
                   (ROMVersion # "ROM_VERSION_CLASSIC" \/ mac_started))
        /\ (ROMVersion = "ROM_VERSION_CLASSIC" /\ ~mac_started) =>
              "INTFLAG_60HZ" \notin InterruptFlags ]_vars
C13_Witness ==
    /\ ROMVersion = "ROM_VERSION_CLASSIC"
    /\ mac_started
    /\ "INTFLAG_60HZ" \in InterruptFlags
    /\ triggers > 0
    /\ ticks > 1

(***************************************************************************)
(* Claims about the XPRAM watchdog, checked under SpecWatchdog.            *)
(***************************************************************************)
\* one call of xpram_watchdog()
WatchdogStep == xpc = "x_watchdog" /\ xpc' = "x_loop"

\* C17: a call of xpram_watchdog() with last_xpram different from XPRAM copies
\* XPRAM to last_xpram and saves it (once); a call with the two equal changes
\* neither and saves nothing; nothing else saves; and as long as the guest
\* has not changed XPRAM, which last_xpram was copied from before the thread
\* was created, the watchdog has saved nothing.
C17_PersistIffChanged ==
    [][ /\ WatchdogStep =>
              IF last_xpram # XPRAM
              THEN /\ last_xpram' = XPRAM
                   /\ saved_xpram' = XPRAM
                   /\ xpram_saves' = xpram_saves + 1
              ELSE UNCHANGED <<last_xpram, saved_xpram, xpram_saves>>
        /\ ~WatchdogStep => UNCHANGED <<last_xpram, saved_xpram, xpram_saves>>
        /\ xpram_writes' = 0 => xpram_saves' = 0
        /\ xpram_saves' <= xpram_writes' ]_vars
C17_Witness ==
    /\ xpram_writes = 2
    /\ xpram_saves = 2
    /\ saved_xpram = XPRAM
    /\ xi = WatchdogWaits

(***************************************************************************)
(* Claims about termination, checked under SpecLive.                       *)
(***************************************************************************)
\* C19: once tick_thread_cancel is set the tick thread returns, once
\* xpram_thread_cancel is set the XPRAM thread returns, and QuitEmulator,
\* once entered, reaches exit(0); a cancel flag that is set stays set; the
\* tick thread starts no iteration after it has found its flag set at the
\* loop condition, and the XPRAM thread with its flag set does no further
\* one-second wait and does not go round its outer loop again.
C19_CancellationTerminates ==
    /\ tick_thread_cancel ~> tpc = "done"
    /\ xpram_thread_cancel ~> xpc = "done"
    /\ pc = "quit" ~> pc = "exited"
    /\ [][ /\ tick_thread_cancel => tick_thread_cancel'
           /\ xpram_thread_cancel => xpram_thread_cancel'
           /\ (tick_thread_cancel /\ tpc = "t_loop") =>
                 tpc' \in { "t_loop", "done" }
           /\ (xpram_thread_cancel /\ xpc = "x_for") => xi' = xi
           /\ (xpram_thread_cancel /\ xpc = "x_loop") =>
                 xpc' \in { "x_loop", "done" } ]_vars
C19_Witness ==
    /\ pc = "exited"
    /\ tpc = "done" /\ ticks > 0
    /\ xpc = "done" /\ xi > 0

(***************************************************************************)
(* Claims about the RAM size, the reservation and the fault handler,       *)
(* checked under SpecMem.                                                  *)
(***************************************************************************)
RamSizeRead == RAMSize # U32(0, 0)
RoundDownMiB(s) == U32(s.hi, 0)
BelowMiB(s) == s.hi = 0

\* C4 as stated: the effective RAM size is 1 MiB for a request below 1 MiB
\* and otherwise the request rounded down to a multiple of 1 MiB.
C4_ClampOrRoundDown ==
    RamSizeRead =>
        RAMSize = IF BelowMiB(prefs.ramsize) THEN U32(1, 0)
                  ELSE RoundDownMiB(prefs.ramsize)

\* C4 as amended: a request s of 1..1000 is taken as a number of megabytes
\* and gives s MiB; a request of 0 or of 1001..0xFFFFF bytes gives 1 MiB;
\* every other request is rounded down to a multiple of 1 MiB.
C4_RamSizePolicy ==
    RamSizeRead =>
        RAMSize = IF BelowMiB(prefs.ramsize) /\ prefs.ramsize.lo \in 1..1000
                  THEN U32(prefs.ramsize.lo, 0)
                  ELSE IF BelowMiB(prefs.ramsize) THEN U32(1, 0)
                  ELSE RoundDownMiB(prefs.ramsize)
C4_Witness ==
    /\ RamSizeRead
    /\ prefs.ramsize = U32(0, 8)
    /\ RAMSize = U32(8, 0)

Reserved == Len(acquired) >= 1 /\ acquired[1].addr # VM_MAP_FAILED

\* a + b as a pair <<MiB, bytes>> without wrapping at 2^32
WideSum(a, b) ==
    <<a.hi + b.hi + ((a.lo + b.lo) \div MiB), (a.lo + b.lo) % MiB>>
Wide(a) == <<a.hi, a.lo>>

\* C5: a successful reservation asked for exactly RAMSize + 0x100000 bytes
\* (the true sum, not the sum modulo 2^32); RAM starts at the mapping, ROM
\* starts RAMSize bytes further, and the ROM area ends where the mapping ends.
C5_RegionLayout ==
    (Reserved /\ pc # "quit") =>
        /\ Wide(acquired[1].size) = WideSum(RAMSize, ROM_AREA_SIZE)
        /\ RAMBaseHost = acquired[1].addr
        /\ Wide(ROMBaseHost) = WideSum(RAMBaseHost, RAMSize)
        /\ WideSum(ROMBaseHost, ROM_AREA_SIZE)
              = WideSum(acquired[1].addr, acquired[1].size)

\* base <= a < base + size, without wrapping
InRange(a, base, size) ==
    LET end == WideSum(base, size)
    IN  /\ U32Le(base, a)
        /\ a.hi < end[1] \/ (a.hi = end[1] /\ a.lo < end[2])
Faulted == last_fault.result # "no_fault"
Disposition(in_rom) ==
    IF last_fault.video THEN "video"
    ELSE IF in_rom THEN "rom"
    ELSE IF prefs.ignoresegv THEN "ignoresegv"
    ELSE "unrecoverable"

\* C7 as stated: the disposition of a fault is the first that applies of
\* video, write to the ROM region (the 0x100000 bytes at ROMBaseHost),
\* ignoresegv, unrecoverable.
C7_FirstMatchRomRegion ==
    Faulted =>
        last_fault.result
            = Disposition(InRange(last_fault.addr, ROMBaseHost, ROM_AREA_SIZE))

\* C7 as amended: the disposition of a fault is the first that applies of
\* video, write to the ROM image (the ROMSize bytes at ROMBaseHost),
\* ignoresegv, unrecoverable.
C7_FirstMatchRomImage ==
    Faulted =>
        last_fault.result
            = Disposition(InRange(last_fault.addr, ROMBaseHost, ROMSize))
C7_Witness ==
    /\ last_fault.result = "rom"
    /\ ValidRomSize(ROMSize)
    /\ last_fault.addr = U32Add(ROMBaseHost, U32Sub(ROMSize, U32(0, 1)))

\* a fault the video code did not claim
UnclaimedFault == Faulted /\ ~last_fault.video
\* the handler took the ROM branch: skip the instruction, whatever ignoresegv
SkippedAsRomWrite == last_fault.result = "rom"

\* C15 as stated: with a ROM file of an allowed length, an unclaimed fault is
\* skipped as a ROM write exactly when its address lies in the 0x100000 bytes
\* at ROMBaseHost, also when the loaded image is smaller; addresses below ROMBaseHost and at or beyond the end of
\* the region are not.
C15_RomRegionFaultsBenign ==
    (UnclaimedFault /\ ValidRomSize(ROMSize)) =>
        (SkippedAsRomWrite
            <=> InRange(last_fault.addr, ROMBaseHost, ROM_AREA_SIZE))

\* C15 as amended: an unclaimed fault is skipped as a ROM write exactly when
\* its address lies in the ROMSize bytes of the loaded image at ROMBaseHost;
\* addresses below ROMBaseHost (where the unsigned subtraction wraps) and
\* addresses at or beyond ROMBaseHost + ROMSize, the rest of the region
\* included, are not.
C15_RomImageFaultsBenign ==
    UnclaimedFault =>
        /\ SkippedAsRomWrite
              <=> InRange(last_fault.addr, ROMBaseHost, ROMSize)
        /\ U32Lt(last_fault.addr, ROMBaseHost) => ~SkippedAsRomWrite
        /\ ~U32Lt(U32Sub(last_fault.addr, ROMBaseHost), ROMSize)
              => ~SkippedAsRomWrite
C15_Witness ==
    /\ UnclaimedFault
    /\ ValidRomSize(ROMSize)
    /\ prefs.ignoresegv
    /\ last_fault.addr = U32Sub(ROMBaseHost, U32(0, 1))
    /\ ~SkippedAsRomWrite
====
